---- MODULE Spec2Model ----
(***************************************************************************)
(* Model of Botan's Algo_Registry<T> (src/lib/algo_base/algo_registry.h):  *)
(* one singleton registry per algorithm family, each a table               *)
(*   base name -> provider -> maker_fn   guarded by one mutex,             *)
(* the operations add / providers / make (with find_maker), the            *)
(* registration handle Add, and the construction adapters.                 *)
(*                                                                         *)
(* Two families are instantiated: "Outer" (T) and "Inner" (X), so that the *)
(* dependent adapter make_new_T_1X<T, X> can be exercised.  Threads call   *)
(* the operations concurrently; every lock acquisition is its own step.    *)
(***************************************************************************)
EXTENDS Integers, Sequences, FiniteSets, TLC

\* ------------------------------------------------------------- bounds ----
\* total number of operations the threads start in one behaviour
MaxCalls == 3

\* ---------------------------------------------------------- universes ----
Threads == {"t1", "t2"}
NoThread == "nobody"

Families == {"Outer", "Inner"}

\* the family X whose registry make_new_T_1X<T, X> consults when X is not T
X_of(f) == "Inner"

\* base names used by the callers of each family
BaseNames(f) == IF f = "Outer" THEN {"CBC"} ELSE {"AES"}

\* strings a Spec may carry as argument 0
ArgStrings == {"AES"}

\* argument lists of the Specs of each family: an Outer spec may name an
\* Inner algorithm, an Inner spec has no arguments
ArgLists(f) == IF f = "Outer" THEN {<<>>} \cup {<<s>> : s \in ArgStrings} ELSE {<<>>}

Providers == {"builtin", "vendor"}

\* providers the registration handles name explicitly; "builtin" is
\* registered by leaving the provider out
NamedProviders == {"vendor"}

\* maker_fn values.  null_fn is the empty std::function, default_null the
\* lambda find_maker returns when nothing matches.  Outer is registered with
\* the dependent adapters, make_new_T_1X<Outer, Inner> and
\* make_new_T_1X<Outer, Outer> (named make_new_T_1X_self), Inner with the
\* adapters that make no nested call and with empty makers.
null_fn == "null_fn"
default_null == "default_null"
Adapters(f) ==
    IF f = "Outer" THEN {"make_new_T_1X", "make_new_T_1X_self"}
    ELSE {"make_new_T", "make_new_T_1str_req"}
MakerFns(f) == IF f = "Outer" THEN Adapters(f) ELSE Adapters(f) \cup {null_fn}

\* the adapters that resolve argument 0 through a registry
IsDependent(fn) == fn \in {"make_new_T_1X", "make_new_T_1X_self"}

\* the family whose registry the dependent adapter fn of family f consults
X_for(f, fn) == IF fn = "make_new_T_1X_self" THEN f ELSE X_of(f)

\* ------------------------------------------------------ Specification ----
\* T::Spec: a base name and an ordered argument list (at most one argument
\* is needed by the adapters modelled here).
Specs(f) == {[name |-> n, args |-> a] : n \in BaseNames(f), a \in ArgLists(f)}
NoSpec == [name |-> "", args |-> <<>>]

algo_name(spec) == spec.name

arg_count(spec) == Len(spec.args)

\* the what() of the exception spec.arg(i) throws for an absent position
arg_out_of_range == <<"argument out of range">>

\* spec.arg(0); only evaluated where arg_count(spec) > 0
arg0(spec) == spec.args[1]

\* the canonical textual form, as a sequence of text pieces
as_string(spec) ==
    IF spec.args = <<>> THEN <<spec.name>>
    ELSE <<spec.name, "(">> \o spec.args \o <<")">>

\* the implicit conversion std::string -> Spec used by make(spec.arg(0))
Spec_of_string(s) == [name |-> s, args |-> <<>>]

\* ------------------------------------------------ outcomes of a call ----
\* what a call of a maker / of make produces: a null pointer, a pointer to a
\* fresh object (id; inner = id of the object it owns, 0 if none), or an
\* exception derived from std::exception with the given what() text.
NoOutcome == [kind |-> "none", id |-> 0, inner |-> 0, what |-> <<>>]
NullPtr == [kind |-> "null", id |-> 0, inner |-> 0, what |-> <<>>]
Instance(i, in) == [kind |-> "instance", id |-> i, inner |-> in, what |-> <<>>]
Exception(w) == [kind |-> "exception", id |-> 0, inner |-> 0, what |-> w]

\* --------------------------------------------------------- the table ----
\* One family's m_maker_fns is a function from the base names present to a
\* sequence of [prov, fn] entries; the sequence order is the iteration order
\* of the std::unordered_map, so begin() is element 1.
Lookup(tbl, name) == IF name \in DOMAIN tbl THEN tbl[name] ELSE <<>>

Index(entries, p) ==
    IF \E i \in 1..Len(entries) : entries[i].prov = p
    THEN CHOOSE i \in 1..Len(entries) : entries[i].prov = p
    ELSE 0

InsertAt(entries, e, k) ==
    SubSeq(entries, 1, k - 1) \o <<e>> \o SubSeq(entries, k, Len(entries))

Keys(entries) == {entries[i].prov : i \in 1..Len(entries)}

\* add that assigns the maker whether or not one is stored (last call wins)
add_fns_overwrite(tbl, name, provider, fn, k) ==
    LET entries == Lookup(tbl, name)
        present == IF Index(entries, provider) = 0
                   THEN InsertAt(entries, [prov |-> provider, fn |-> null_fn], k)
                   ELSE entries
        i == Index(present, provider)
    IN [n \in DOMAIN tbl \cup {name} |->
           IF n = name THEN [present EXCEPT ![i].fn = fn] ELSE tbl[n]]

\* add that assigns the maker only when it has just created the entry
add_fns_if_absent(tbl, name, provider, fn, k) ==
    LET entries == Lookup(tbl, name)
        stored == IF Index(entries, provider) = 0
                  THEN InsertAt(entries, [prov |-> provider, fn |-> fn], k)
                  ELSE entries
    IN [n \in DOMAIN tbl \cup {name} |-> IF n = name THEN stored ELSE tbl[n]]

\* ------------------------------------------------- Algo_Registry::add ----
\* The table update of add(name, provider, fn).  m_maker_fns[name][provider]
\* default-constructs the entry (an empty std::function) when it is absent;
\* k is the place the new entry takes in the iteration order.  The maker is
\* assigned only when the entry's maker is empty.
add_fns(tbl, name, provider, fn, k) ==
    LET entries == Lookup(tbl, name)
        present == IF Index(entries, provider) = 0
                   THEN InsertAt(entries, [prov |-> provider, fn |-> null_fn], k)
                   ELSE entries
        i == Index(present, provider)
        stored == IF present[i].fn = null_fn
                  THEN [present EXCEPT ![i].fn = fn]
                  ELSE present
    IN [n \in DOMAIN tbl \cup {name} |-> IF n = name THEN stored ELSE tbl[n]]

\* places a new entry may take in the iteration order of the inner map
InsertPlaces(tbl, name, provider) ==
    IF Index(Lookup(tbl, name), provider) = 0
    THEN 1..(Len(Lookup(tbl, name)) + 1)
    ELSE {1}

\* providers that stops after the first entry
providers_first_only(tbl, basename) ==
    IF basename \in DOMAIN tbl /\ tbl[basename] # <<>>
    THEN <<tbl[basename][1].prov>>
    ELSE <<>>

\* ------------------------------------------- Algo_Registry::providers ----
\* one element per entry of the base name's inner map, in iteration order
providers(tbl, basename) ==
    IF basename \in DOMAIN tbl
    THEN [i \in 1..Len(tbl[basename]) |-> tbl[basename][i].prov]
    ELSE <<>>

\* find_maker that falls back to begin() when the explicit provider is absent
find_maker_fallback(tbl, spec, provider) ==
    LET provs == Lookup(tbl, algo_name(spec))
    IN IF provs # <<>>
       THEN IF provider # "" /\ Index(provs, provider) # 0
            THEN provs[Index(provs, provider)].fn
            ELSE provs[1].fn
       ELSE default_null

\* find_maker whose default result is an empty function, not the null lambda
find_maker_empty_default(tbl, spec, provider) ==
    LET provs == Lookup(tbl, algo_name(spec))
    IN IF provs # <<>>
       THEN IF provider # ""
            THEN IF Index(provs, provider) # 0
                 THEN provs[Index(provs, provider)].fn
                 ELSE default_null
            ELSE provs[1].fn
       ELSE null_fn

\* find_maker without the providers.size() == 1 branch
find_maker_no_single(tbl, spec, provider) ==
    LET provs == Lookup(tbl, algo_name(spec))
    IN IF provs # <<>>
       THEN IF provider # ""
            THEN IF Index(provs, provider) # 0
                 THEN provs[Index(provs, provider)].fn
                 ELSE default_null
            ELSE IF Len(provs) > 1 THEN provs[1].fn ELSE default_null
       ELSE default_null

\* find_maker that compares an explicit provider with the begin() entry only
find_maker_first_only(tbl, spec, provider) ==
    LET provs == Lookup(tbl, algo_name(spec))
    IN IF provs # <<>>
       THEN IF provider # ""
            THEN IF provs[1].prov = provider THEN provs[1].fn ELSE default_null
            ELSE provs[1].fn
       ELSE default_null

\* ------------------------------------------ Algo_Registry::find_maker ----
find_maker(tbl, spec, provider) ==
    LET basename == algo_name(spec)
        provs == Lookup(tbl, basename)
    IN IF basename \in DOMAIN tbl /\ provs # <<>>
       THEN IF provider # ""
            THEN IF Index(provs, provider) # 0
                 THEN provs[Index(provs, provider)].fn
                 ELSE default_null
            ELSE IF Len(provs) = 1
                 THEN provs[1].fn
                 ELSE IF Len(provs) > 1
                      THEN provs[1].fn
                      ELSE default_null
       ELSE default_null

\* ------------------------------------------------------ the adapters ----
\* a maker handing out one memoized object
make_new_T_cached(next) == Instance(1, 0)

\* new T: the object gets the next unused identity
make_new_T(next) == Instance(next, 0)

\* new T(spec.arg(0)); spec.arg(0) throws when the position is absent
make_new_T_1str_req(spec, next) ==
    IF arg_count(spec) > 0 THEN Instance(next, 0) ELSE Exception(arg_out_of_range)

\* calling an empty std::function throws std::bad_function_call
bad_function_call == <<"bad_function_call">>

\* maker(spec) for the makers that do not call back into a registry
call_maker(fn, spec, next) ==
    CASE fn = default_null -> NullPtr
      [] fn = null_fn -> Exception(bad_function_call)
      [] fn = "make_new_T" -> make_new_T(next)
      [] fn = "make_new_T_1str_req" -> make_new_T_1str_req(spec, next)

\* make_new_T_1X without the if(!x) test: T is built around a null X
make_new_T_1X_tail_unchecked(spec, x, next) ==
    CASE x.kind = "exception" -> x
      [] x.kind = "null" -> Instance(next, 0)
      [] x.kind = "instance" -> Instance(next, x.id)

\* the rest of make_new_T_1X once the nested make returned x (or threw):
\* a thrown exception propagates, a null x throws runtime_error(spec.arg(0)),
\* otherwise new T(x.release()) owns x
make_new_T_1X_tail(spec, x, next) ==
    CASE x.kind = "exception" -> x
      [] x.kind = "null" -> Exception(<<arg0(spec)>>)
      [] x.kind = "instance" -> Instance(next, x.id)

\* make with the catch block returning nullptr
make_catch_swallow(spec, out) == IF out.kind = "exception" THEN NullPtr ELSE out

\* make with a catch block that rethrows the exception as it is
make_catch_bare(spec, out) == out

\* ------------------------------------------------ Algo_Registry::make ----
\* the try/catch around maker(spec): a std::exception is rethrown as
\* runtime_error("Creating '" + spec.as_string() + "' failed: " + e.what())
make_catch(spec, out) ==
    IF out.kind = "exception"
    THEN Exception(<<"Creating '">> \o as_string(spec) \o <<"' failed: ">> \o out.what)
    ELSE out

\* the provider make_new_T_1X hands to the nested make, were it to pass on
\* the provider of the construction it serves
make_new_T_1X_provider_passed(provider) == provider

\* the provider of the nested make in make_new_T_1X: make(spec.arg(0)) leaves
\* it to the default argument "", whatever provider the outer make was given
make_new_T_1X_provider(provider) == ""

\* ---------------------------------------------- the mutex and the table ----
\* one mutex shared by all registries
mutex_shared(f) == "Outer"

\* the mutex guarding family f's table: m_mutex is a member of the
\* per-family singleton, so each family has its own
mutex_of(f) == f

\* a unique_lock that is not released when its function returns
unlock_kept(mutex, f) == mutex

\* the unique_lock going out of scope at the end of add / providers /
\* find_maker releases the family's mutex
unlock(mutex, f) == [mutex EXCEPT ![mutex_of(f)] = NoThread]

\* a lookup through operator[], which inserts an empty inner map
find_fns_subscript(tbl, basename) ==
    [n \in DOMAIN tbl \cup {basename} |-> Lookup(tbl, n)]

\* the table after m_maker_fns.find(basename): find inserts nothing
find_fns(tbl, basename) == tbl

\* ------------------------------------------------- Algo_Registry::Add ----
\* the default of the provider parameter of the three-argument constructor
Add_default_provider == "builtin"

\* the four-argument constructor ignoring its condition
Add_cond_ignored(cond) == TRUE

\* whether the four-argument constructor calls add
Add_cond(cond) == cond

\* ------------------------------------------------------------- state ----
VARIABLES
    m_maker_fns,   \* per family: base name -> entries [prov, fn] in iteration order
    m_mutex,       \* per mutex: the thread holding it
    th,            \* per thread: the call it is executing and its locals
    next_id,       \* identity the next object created by new gets
    calls,         \* operations started so far
    addlog,        \* history: per (family, name, provider) the makers passed
                   \* to add, in the order the calls took effect
    returned       \* history: identities of the objects handed to callers

vars == <<m_maker_fns, m_mutex, th, next_id, calls, addlog, returned>>

Pairs == UNION {{<<f, n, p>> : n \in BaseNames(f), p \in Providers} : f \in Families}

\* a thread between calls
Idle ==
    [pc |-> "idle", op |-> "", fam |-> "", spec |-> NoSpec, provider |-> "",
     fn |-> "", cond |-> TRUE, defaulted |-> FALSE, adds |-> 0,
     maker |-> "", seen |-> <<>>, xmaker |-> "", xseen |-> <<>>,
     x |-> NoOutcome, out |-> NoOutcome, invoked |-> 0, xinvoked |-> 0,
     v |-> <<>>, result |-> NoOutcome, regd |-> FALSE]

Init ==
    /\ m_maker_fns = [f \in Families |-> <<>>]
    /\ m_mutex = [f \in Families |-> NoThread]
    /\ th = [t \in Threads |-> Idle]
    /\ next_id = 1
    /\ calls = 0
    /\ addlog = [pr \in Pairs |-> <<>>]
    /\ returned = {}

Start(t) == th[t].pc = "idle" /\ calls < MaxCalls /\ calls' = calls + 1

\* Add(basename, fn, provider = "builtin"): pa is <<>> when the caller omits
\* the provider
CallAddHandle(t) ==
    /\ Start(t)
    /\ \E f \in Families : \E n \in BaseNames(f), fn \in MakerFns(f),
                             pa \in {<<>>} \cup {<<p>> : p \in NamedProviders} :
          th' = [th EXCEPT ![t] = [Idle EXCEPT !.pc = "add_lock", !.op = "Add",
                     !.fam = f, !.spec = Spec_of_string(n),
                     !.provider = IF pa = <<>> THEN Add_default_provider ELSE pa[1],
                     !.defaulted = (pa = <<>>),
                     !.fn = fn]]
    /\ UNCHANGED <<m_maker_fns, m_mutex, next_id, addlog, returned>>

\* Add(cond, basename, fn, provider)
CallAddCond(t) ==
    /\ Start(t)
    /\ \E f \in Families : \E n \in BaseNames(f), fn \in MakerFns(f),
                             p \in NamedProviders, cond \in BOOLEAN :
          th' = [th EXCEPT ![t] = [Idle EXCEPT
                     !.pc = IF Add_cond(cond) THEN "add_lock" ELSE "done",
                     !.op = "AddCond", !.cond = cond,
                     !.fam = f, !.spec = Spec_of_string(n), !.provider = p,
                     !.fn = fn]]
    /\ UNCHANGED <<m_maker_fns, m_mutex, next_id, addlog, returned>>

\* registry.providers(basename)
CallProviders(t) ==
    /\ Start(t)
    /\ \E f \in Families : \E n \in BaseNames(f) :
          th' = [th EXCEPT ![t] = [Idle EXCEPT !.pc = "prov_lock",
                     !.op = "providers", !.fam = f, !.spec = Spec_of_string(n)]]
    /\ UNCHANGED <<m_maker_fns, m_mutex, next_id, addlog, returned>>

\* registry.make(spec, provider = ""), also reached through make_a
CallMake(t) ==
    /\ Start(t)
    /\ \E f \in Families : \E sp \in Specs(f), p \in Providers \cup {""} :
          th' = [th EXCEPT ![t] = [Idle EXCEPT !.pc = "find_lock", !.op = "make",
                     !.fam = f, !.spec = sp, !.provider = p,
                     !.regd = (p # "" /\ addlog[<<f, algo_name(sp), p>>] # <<>>)]]
    /\ UNCHANGED <<m_maker_fns, m_mutex, next_id, addlog, returned>>

\* std::unique_lock<std::mutex> lock(m_mutex) in add / providers / find_maker
Acquire(t, at, f, to) ==
    /\ th[t].pc = at
    /\ m_mutex[mutex_of(f)] = NoThread
    /\ m_mutex' = [m_mutex EXCEPT ![mutex_of(f)] = t]
    /\ th' = [th EXCEPT ![t].pc = to]
    /\ UNCHANGED <<m_maker_fns, next_id, calls, addlog, returned>>

AddLock(t) == Acquire(t, "add_lock", th[t].fam, "add_body")

ProvidersLock(t) == Acquire(t, "prov_lock", th[t].fam, "prov_body")

FindLock(t) == Acquire(t, "find_lock", th[t].fam, "find_body")

XFindLock(t) ==
    Acquire(t, "x_find_lock", X_for(th[t].fam, th[t].maker), "x_find_body")

\* body of add under the lock; the lock is released on return
AddBody(t) ==
    /\ th[t].pc = "add_body"
    /\ LET f == th[t].fam
           n == th[t].spec.name
           p == th[t].provider
       IN /\ \E k \in InsertPlaces(m_maker_fns[f], n, p) :
                m_maker_fns' = [m_maker_fns EXCEPT
                                   ![f] = add_fns(m_maker_fns[f], n, p, th[t].fn, k)]
          /\ addlog' = [addlog EXCEPT ![<<f, n, p>>] = Append(@, th[t].fn)]
          /\ m_mutex' = unlock(m_mutex, f)
    /\ th' = [th EXCEPT ![t].pc = "done", ![t].adds = @ + 1]
    /\ UNCHANGED <<next_id, calls, returned>>

\* body of providers under the lock
ProvidersBody(t) ==
    /\ th[t].pc = "prov_body"
    /\ th' = [th EXCEPT ![t].pc = "done",
                        ![t].v = providers(m_maker_fns[th[t].fam], th[t].spec.name),
                        ![t].seen = Lookup(m_maker_fns[th[t].fam], th[t].spec.name)]
    /\ m_mutex' = unlock(m_mutex, th[t].fam)
    /\ m_maker_fns' = [m_maker_fns EXCEPT
                           ![th[t].fam] = find_fns(@, algo_name(th[t].spec))]
    /\ UNCHANGED <<next_id, calls, addlog, returned>>

\* body of find_maker under the lock; make then holds the maker, unlocked
FindBody(t) ==
    /\ th[t].pc = "find_body"
    /\ th' = [th EXCEPT ![t].pc = "invoke",
                        ![t].maker = find_maker(m_maker_fns[th[t].fam], th[t].spec,
                                                th[t].provider),
                        ![t].seen = Lookup(m_maker_fns[th[t].fam], algo_name(th[t].spec))]
    /\ m_mutex' = unlock(m_mutex, th[t].fam)
    /\ m_maker_fns' = [m_maker_fns EXCEPT
                           ![th[t].fam] = find_fns(@, algo_name(th[t].spec))]
    /\ UNCHANGED <<next_id, calls, addlog, returned>>

Registered(fn) == IF fn = default_null THEN 0 ELSE 1

Allocates(out) == IF out.kind = "instance" THEN 1 ELSE 0

\* maker(spec) in make, for a maker that completes without a nested make;
\* the try/catch of make turns its outcome into the result
Invoke(t) ==
    /\ th[t].pc = "invoke"
    /\ ~IsDependent(th[t].maker) \/ arg_count(th[t].spec) = 0
    /\ LET out == IF IsDependent(th[t].maker)
                  THEN Exception(arg_out_of_range)
                  ELSE call_maker(th[t].maker, th[t].spec, next_id)
       IN /\ th' = [th EXCEPT ![t].pc = "done", ![t].out = out,
                              ![t].invoked = @ + Registered(th[t].maker),
                              ![t].result = make_catch(th[t].spec, out)]
          /\ next_id' = next_id + Allocates(out)
    /\ UNCHANGED <<m_maker_fns, m_mutex, calls, addlog, returned>>

\* make_new_T_1X: Algo_Registry<X>::global_registry().make(spec.arg(0))
InvokeX(t) ==
    /\ th[t].pc = "invoke"
    /\ IsDependent(th[t].maker) /\ arg_count(th[t].spec) > 0
    /\ th' = [th EXCEPT ![t].pc = "x_find_lock", ![t].invoked = @ + 1]
    /\ UNCHANGED <<m_maker_fns, m_mutex, next_id, calls, addlog, returned>>

\* find_maker of the nested make, on X's registry
XFindBody(t) ==
    /\ th[t].pc = "x_find_body"
    /\ LET xf == X_for(th[t].fam, th[t].maker)
           xspec == Spec_of_string(arg0(th[t].spec))
       IN /\ th' = [th EXCEPT ![t].pc = "x_invoke",
                        ![t].xmaker = find_maker(m_maker_fns[xf], xspec,
                                          make_new_T_1X_provider(th[t].provider)),
                        ![t].xseen = Lookup(m_maker_fns[xf], algo_name(xspec))]
          /\ m_mutex' = unlock(m_mutex, xf)
          /\ m_maker_fns' = [m_maker_fns EXCEPT ![xf] = find_fns(@, algo_name(xspec))]
    /\ UNCHANGED <<next_id, calls, addlog, returned>>

\* the nested make invokes its maker and returns x; make_new_T_1X finishes
\* and the try/catch of the outer make produces the result
XInvoke(t) ==
    /\ th[t].pc = "x_invoke"
    /\ LET xspec == Spec_of_string(arg0(th[t].spec))
           x == make_catch(xspec, call_maker(th[t].xmaker, xspec, next_id))
           mid == next_id + Allocates(x)
           out == make_new_T_1X_tail(th[t].spec, x, mid)
       IN /\ th' = [th EXCEPT ![t].pc = "done", ![t].x = x, ![t].out = out,
                              ![t].xinvoked = @ + Registered(th[t].xmaker),
                              ![t].result = make_catch(th[t].spec, out)]
          /\ next_id' = mid + Allocates(out)
    /\ UNCHANGED <<m_maker_fns, m_mutex, calls, addlog, returned>>

\* the call returns to its caller, which takes the result
Return(t) ==
    /\ th[t].pc = "done"
    /\ th' = [th EXCEPT ![t] = Idle]
    /\ returned' = IF th[t].result.kind = "instance"
                   THEN returned \cup {th[t].result.id}
                   ELSE returned
    /\ UNCHANGED <<m_maker_fns, m_mutex, next_id, calls, addlog>>

Next ==
    \E t \in Threads :
        \/ CallAddHandle(t)
        \/ CallAddCond(t)
        \/ CallProviders(t)
        \/ CallMake(t)
        \/ AddLock(t)
        \/ ProvidersLock(t)
        \/ FindLock(t)
        \/ XFindLock(t)
        \/ AddBody(t)
        \/ ProvidersBody(t)
        \/ FindBody(t)
        \/ Invoke(t)
        \/ InvokeX(t)
        \/ XFindBody(t)
        \/ XInvoke(t)
        \/ Return(t)

Spec == Init /\ [][Next]_vars

\* ============================================================ claims ====
Range(seq) == {seq[i] : i \in 1..Len(seq)}

\* sub occurs in w as a contiguous run of pieces
Contains(w, sub) ==
    \E i \in 1..(Len(w) - Len(sub) + 1) : SubSeq(w, i, i + Len(sub) - 1) = sub

EndsWith(w, sub) ==
    Len(w) >= Len(sub) /\ SubSeq(w, Len(w) - Len(sub) + 1, Len(w)) = sub

\* the maker stored for a pair, "absent" when the pair has no entry
StoredFn(pr) ==
    LET entries == Lookup(m_maker_fns[pr[1]], pr[2])
    IN IF Index(entries, pr[3]) = 0 THEN "absent"
       ELSE entries[Index(entries, pr[3])].fn

\* the first non-empty maker of a log, null_fn when there is none
FirstNonEmpty(log) ==
    IF \E i \in 1..Len(log) : log[i] # null_fn
    THEN log[CHOOSE i \in 1..Len(log) :
                 log[i] # null_fn /\ \A j \in 1..(i - 1) : log[j] = null_fn]
    ELSE null_fn

\* thread t is in make and find_maker has returned
Looked(t) ==
    th[t].op = "make"
    /\ th[t].pc \in {"invoke", "x_find_lock", "x_find_body", "x_invoke", "done"}

\* thread t has finished make and not yet handed the result to its caller
Made(t) == th[t].op = "make" /\ th[t].pc = "done"

PairOf(t) == <<th[t].fam, algo_name(th[t].spec), th[t].provider>>

C1_Stored ==
    /\ \A pr \in Pairs :
          /\ (StoredFn(pr) = "absent") <=> (addlog[pr] = <<>>)
          /\ addlog[pr] # <<>> => StoredFn(pr) = FirstNonEmpty(addlog[pr])
    /\ \A t \in Threads :
          Looked(t) /\ th[t].provider # "" /\ th[t].provider \in Keys(th[t].seen)
          => /\ th[t].maker = th[t].seen[Index(th[t].seen, th[t].provider)].fn
             /\ th[t].maker # null_fn
                => th[t].maker = FirstNonEmpty(addlog[PairOf(t)])

C1_Step ==
    \A pr \in Pairs :
        /\ StoredFn(pr) # "absent" => StoredFn(pr)' # "absent"
        /\ StoredFn(pr) \notin {"absent", null_fn} => StoredFn(pr)' = StoredFn(pr)

static_provider_weight(prov_name) ==
    CASE prov_name = "builtin" -> 1
      [] prov_name = "vendor" -> 2
      [] OTHER -> 0

\* position of a provider name in lexicographic order
LexRank(prov_name) == IF prov_name = "builtin" THEN 1 ELSE 2

\* the entry the weighted policy selects: highest weight, then least name
Preferred(entries) ==
    CHOOSE i \in 1..Len(entries) :
        \A j \in 1..Len(entries) :
            \/ static_provider_weight(entries[i].prov) > static_provider_weight(entries[j].prov)
            \/ /\ static_provider_weight(entries[i].prov) = static_provider_weight(entries[j].prov)
               /\ LexRank(entries[i].prov) <= LexRank(entries[j].prov)

\* C2: a make without provider hint on a base name with two or more
\* providers selects the maker of the highest-weighted provider (ties by
\* provider name), whatever the registration order.
C2_HighestWeightSelected ==
    \A t \in Threads :
        Looked(t) /\ th[t].provider = "" /\ Len(th[t].seen) >= 2
        => th[t].maker = th[t].seen[Preferred(th[t].seen)].fn

\* ---- C3 ----------------------------------------------------------------
\* C3: make with a non-empty provider that has no entry under the base name
\* selects the null-producing default, invokes no registered maker and
\* returns a null pointer, also when other providers are registered.
C3_ExactMatchOnly ==
    \A t \in Threads :
        Looked(t) /\ th[t].provider # "" /\ th[t].provider \notin Keys(th[t].seen)
        => /\ th[t].maker = default_null
           /\ th[t].invoked = 0
           /\ th[t].pc = "done" => th[t].result = NullPtr

\* a finished make for a provider that is absent while another is registered
C3_Witness ==
    \E t \in Threads :
        /\ Made(t) /\ th[t].provider # ""
        /\ th[t].seen # <<>> /\ th[t].provider \notin Keys(th[t].seen)
        /\ th[t].seen[1].fn \in Adapters(th[t].fam)
        /\ th[t].result = NullPtr

\* ---- C4 ----------------------------------------------------------------
NeverRegistered(f, n) == \A p \in Providers : addlog[<<f, n, p>>] = <<>>

\* C4: make on a base name that has no entry at the lookup (in particular
\* one add was never called for) returns a null pointer as a normal return
\* value, with any provider hint: no exception and no registered maker run.
C4_UnknownBaseName ==
    \A t \in Threads :
        Looked(t)
        => /\ NeverRegistered(th[t].fam, algo_name(th[t].spec)) => th[t].seen = <<>>
           /\ th[t].seen = <<>>
              => /\ th[t].maker = default_null
                 /\ th[t].invoked = 0
                 /\ th[t].pc = "done" => th[t].result = NullPtr

\* a finished make, with an explicit provider, on a base name add was never
\* called for
C4_Witness ==
    \E t \in Threads :
        /\ Made(t) /\ NeverRegistered(th[t].fam, algo_name(th[t].spec))
        /\ th[t].provider # ""
        /\ th[t].result = NullPtr

\* ---- C5 ----------------------------------------------------------------
\* C5: make without provider hint on a base name that has exactly one
\* provider at the lookup selects that provider's maker and invokes it.
C5_SingleProvider ==
    \A t \in Threads :
        Looked(t) /\ th[t].provider = "" /\ Len(th[t].seen) = 1
        => /\ th[t].maker = th[t].seen[1].fn
           /\ th[t].pc = "done" => th[t].invoked = 1

\* a finished hint-less make that found one provider and got its object,
\* while the other thread is inside a call of its own
C5_Witness ==
    \E t \in Threads :
        /\ Made(t) /\ th[t].provider = "" /\ Len(th[t].seen) = 1
        /\ th[t].result.kind = "instance"
        /\ \E u \in Threads \ {t} : th[u].pc # "idle"

\* ---- C6 ----------------------------------------------------------------
\* C6: when the selected maker throws, make throws: the result is an
\* exception whose text holds the spec's canonical form and ends with the
\* text of the maker's exception; it is not a null pointer or an object,
\* and the maker ran once.
C6_FailureWrapped ==
    \A t \in Threads :
        Made(t) /\ th[t].out.kind = "exception"
        => /\ th[t].result.kind = "exception"
           /\ Contains(th[t].result.what, <<"Creating '">> \o as_string(th[t].spec))
           /\ EndsWith(th[t].result.what, <<"' failed: ">> \o th[t].out.what)
           /\ th[t].invoked = 1

\* a finished make whose registered adapter threw, for a spec with an argument
C6_Witness ==
    \E t \in Threads :
        /\ Made(t) /\ th[t].out.kind = "exception"
        /\ th[t].maker \in Adapters(th[t].fam)
        /\ arg_count(th[t].spec) > 0
        /\ th[t].result.kind = "exception"

\* ---- C7 ----------------------------------------------------------------
\* thread t finished a make that ran a dependent adapter with argument 0 present
Dependent(t) ==
    Made(t) /\ IsDependent(th[t].maker) /\ arg_count(th[t].spec) > 0

\* C7: a make through make_new_T_1X yields an object exactly when the nested
\* make on X's registry yielded one, and that object owns the X object; when
\* the nested make yielded a null pointer (X's base name has no entry) the
\* result is an exception whose cause text is the missing X name.
C7_Dependent ==
    \A t \in Threads :
        Dependent(t)
        => /\ (th[t].result.kind = "instance") <=> (th[t].x.kind = "instance")
           /\ th[t].x.kind = "instance"
              => th[t].result.inner = th[t].x.id /\ th[t].result.id # th[t].x.id
           /\ th[t].xseen = <<>> => th[t].x = NullPtr
           /\ th[t].x.kind = "null"
              => /\ th[t].result.kind = "exception"
                 /\ EndsWith(th[t].result.what, <<"' failed: ", arg0(th[t].spec)>>)

\* a dependent make that found X's base name unregistered
C7_Witness ==
    \E t \in Threads :
        /\ Dependent(t) /\ th[t].x.kind = "null" /\ th[t].xseen = <<>>
        /\ th[t].result.kind = "exception"

\* a dependent make that succeeded
C7_Success ==
    \E t \in Threads :
        Dependent(t) /\ th[t].x.kind = "instance" /\ th[t].result.inner = th[t].x.id

\* ---- C8 ----------------------------------------------------------------
\* C8: a make that selected a registered maker ran it once and returns the
\* object that run produced; objects held by different callers, and objects
\* returned earlier, are pairwise distinct, and the table stores makers only.
C8_FreshInstances ==
    /\ \A t \in Threads :
          Made(t) /\ th[t].maker # default_null
          => /\ th[t].invoked = 1
             /\ th[t].result.kind = "instance"
                => /\ th[t].result = th[t].out
                   /\ th[t].result.id \notin returned
                   /\ th[t].result.inner \notin returned
    /\ \A t \in Threads, u \in Threads :
          /\ t # u
          /\ Made(t) /\ th[t].result.kind = "instance"
          /\ Made(u) /\ th[u].result.kind = "instance"
          => /\ th[t].result.id # th[u].result.id
             /\ th[t].result.id # th[u].result.inner
    /\ \A f \in Families : \A n \in DOMAIN m_maker_fns[f] :
          \A i \in 1..Len(m_maker_fns[f][n]) :
              m_maker_fns[f][n][i].fn \in Adapters(f) \cup {null_fn}

\* two threads holding objects made for the same base name and provider
C8_Witness ==
    \E t \in Threads, u \in Threads :
        /\ t # u
        /\ Made(t) /\ th[t].result.kind = "instance"
        /\ Made(u) /\ th[u].result.kind = "instance"
        /\ th[t].fam = th[u].fam /\ th[t].spec = th[u].spec
        /\ th[t].provider = th[u].provider /\ th[t].provider # ""

\* ---- C9 ----------------------------------------------------------------
RegisteredProviders(f, n) == {p \in Providers : addlog[<<f, n, p>>] # <<>>}

C9_Step ==
    \A t \in Threads :
        th[t].pc = "prov_body" /\ th'[t].pc = "done"
        => /\ Range(th'[t].v) = RegisteredProviders(th[t].fam, th[t].spec.name)
           /\ Len(th'[t].v) = Cardinality(RegisteredProviders(th[t].fam, th[t].spec.name))

C9_Empty ==
    \E t \in Threads :
        /\ th[t].op = "providers" /\ th[t].pc = "done" /\ th[t].v = <<>>
        /\ \E f \in Families : m_maker_fns[f] # <<>>

\* ---- C10 ---------------------------------------------------------------
C10_Done ==
    \A t \in Threads :
        th[t].pc = "done"
        => /\ th[t].op = "Add"
              => /\ th[t].adds = 1
                 /\ th[t].defaulted => th[t].provider = "builtin"
                 /\ th[t].fn \in Range(addlog[PairOf(t)])
           /\ th[t].op = "AddCond" /\ th[t].cond
              => th[t].adds = 1 /\ th[t].fn \in Range(addlog[PairOf(t)])
           /\ th[t].op = "AddCond" /\ ~th[t].cond => th[t].adds = 0

C10_Step ==
    m_maker_fns' # m_maker_fns \/ addlog' # addlog
    => \E t \in Threads :
          /\ th[t].pc = "add_body" /\ th'[t].pc = "done"
          /\ th[t].adds = 0
          /\ th[t].op = "AddCond" => th[t].cond

\* C10: a finished Add handle has made exactly one add call on its family's
\* registry, under "builtin" when no provider was given; a finished
\* conditional handle has made one when its condition held and none when it
\* did not, and the table changes only in the add of a handle whose
\* condition held.
C10_HandleRegistersOnce == []C10_Done /\ [][C10_Step]_vars

\* a finished conditional handle with a false condition, next to a table
\* that another handle, constructed without provider, has filled
C10_Witness ==
    \E t \in Threads, u \in Threads :
        /\ th[t].pc = "done" /\ th[t].op = "AddCond" /\ ~th[t].cond
        /\ th[u].pc = "done" /\ th[u].op = "Add" /\ th[u].defaulted
        /\ StoredFn(PairOf(u)) = th[u].fn

\* ---- C11 ---------------------------------------------------------------
\* C11: the exception make throws holds the spec's canonical form, ends
\* with the text of the maker's exception and, when make was given an
\* explicit provider, names that provider.
C11_FailureNamesProvider ==
    \A t \in Threads :
        Made(t) /\ th[t].result.kind = "exception"
        => /\ Contains(th[t].result.what, as_string(th[t].spec))
           /\ EndsWith(th[t].result.what, th[t].out.what)
           /\ th[t].provider # "" => Contains(th[t].result.what, <<th[t].provider>>)

\* ---- C12 ---------------------------------------------------------------
\* program points at which a thread is between the lookup of a make and the
\* return of its maker, outside any nested lookup
InMaker(t) == th[t].pc \in {"invoke", "x_find_lock", "x_invoke"}

\* the mutex a thread at a locked program point holds
HeldAt(t) ==
    CASE th[t].pc \in {"add_body", "prov_body", "find_body"} -> {mutex_of(th[t].fam)}
      [] th[t].pc = "x_find_body" -> {mutex_of(X_for(th[t].fam, th[t].maker))}
      [] OTHER -> {}

\* C12: a thread that is about to call, or is inside, the maker of a make
\* holds no mutex, except for the time of the table lookup of a nested make;
\* a mutex is held only by a thread in the table update of add, the lookup
\* of providers or the lookup of find_maker, and by one such thread.
C12_LockDiscipline ==
    /\ \A t \in Threads : InMaker(t) => \A f \in Families : m_mutex[f] # t
    /\ \A f \in Families :
          m_mutex[f] # NoThread
          => m_mutex[f] \in Threads /\ HeldAt(m_mutex[f]) = {f}
    /\ \A t \in Threads : \A f \in HeldAt(t) : m_mutex[f] = t

\* one thread inside a maker, holding nothing, while the other thread holds
\* the mutex of the same family inside its own lookup
C12_Witness ==
    \E t \in Threads, u \in Threads :
        /\ t # u
        /\ th[t].pc = "invoke" /\ th[t].maker \in Adapters(th[t].fam)
        /\ th[u].pc = "find_body" /\ th[u].fam = th[t].fam
        /\ m_mutex[th[t].fam] = u

\* ---- C13 ---------------------------------------------------------------
\* number of operations started in a behaviour of the fair specification
MaxLiveCalls == 2

\* the steps of a call that thread t has started
Step(t) ==
    \/ AddLock(t) \/ ProvidersLock(t) \/ FindLock(t) \/ XFindLock(t)
    \/ AddBody(t) \/ ProvidersBody(t) \/ FindBody(t)
    \/ Invoke(t) \/ InvokeX(t) \/ XFindBody(t) \/ XInvoke(t)
    \/ Return(t)

LiveNext == Next /\ calls' <= MaxLiveCalls

\* the scheduler is fair to every thread that can take a step of its call;
\* starting a new call is left to the caller
FairSpec == Init /\ [][LiveNext]_vars /\ \A t \in Threads : WF_vars(Step(t))

\* the mutex a thread at a lock statement is about to acquire
WaitsFor(t) ==
    CASE th[t].pc \in {"add_lock", "prov_lock", "find_lock"} -> {mutex_of(th[t].fam)}
      [] th[t].pc = "x_find_lock" -> {mutex_of(X_for(th[t].fam, th[t].maker))}
      [] OTHER -> {}

C13_NoSelfWait == \A t \in Threads : \A f \in WaitsFor(t) : m_mutex[f] # t

C13_Completes == \A t \in Threads : (th[t].pc # "idle") ~> (th[t].pc = "done")

C13_Blocked ==
    \E t \in Threads, u \in Threads :
        t # u /\ \E f \in WaitsFor(t) : m_mutex[f] = u

\* ---- C14 ---------------------------------------------------------------
StoredFns(entries) == {entries[i].fn : i \in 1..Len(entries)}

C14_Selected ==
    \A t \in Threads :
        /\ Looked(t) => th[t].maker \in {default_null} \cup StoredFns(th[t].seen)
        /\ Looked(t) /\ th[t].regd => th[t].maker # default_null
        /\ Made(t) /\ th[t].regd => th[t].result.kind # "null"

C14_Lookup ==
    \A t \in Threads :
        /\ th[t].pc = "find_body" /\ th'[t].pc = "invoke"
           => /\ m_mutex[mutex_of(th[t].fam)] = t
              /\ th'[t].maker \in {default_null} \cup
                    StoredFns(Lookup(m_maker_fns[th[t].fam], algo_name(th[t].spec)))
        /\ th[t].pc = "x_find_body" /\ th'[t].pc = "x_invoke"
           => /\ m_mutex[mutex_of(X_for(th[t].fam, th[t].maker))] = t
              /\ th'[t].xmaker \in {default_null} \cup
                    StoredFns(Lookup(m_maker_fns[X_for(th[t].fam, th[t].maker)],
                                     arg0(th[t].spec)))

\* C14: the maker a make selects is the null default or a maker stored for
\* the spec's base name in the table as it is at the step of the lookup,
\* taken with the mutex held; a make with explicit provider p that starts
\* after an add for (base name, p) took effect selects a stored maker and
\* does not return a null pointer.
C14_AtomicLookup == []C14_Selected /\ [][C14_Lookup]_vars

\* a make for a provider registered before it started has returned an
\* object while the other thread is registering for the same family
C14_Witness ==
    \E t \in Threads, u \in Threads :
        /\ t # u
        /\ Made(t) /\ th[t].regd /\ th[t].result.kind = "instance"
        /\ th[u].op \in {"Add", "AddCond"} /\ th[u].pc \in {"add_lock", "add_body", "done"}
        /\ th[u].fam = th[t].fam /\ th[u].provider # th[t].provider

\* ---- C15 ---------------------------------------------------------------
C15_Step ==
    \A t \in Threads :
        th[t].op \in {"make", "providers"} /\ th'[t] # th[t]
        => /\ m_maker_fns' = m_maker_fns
           /\ \A pr \in Pairs : StoredFn(pr)' = StoredFn(pr)

\* C15: no step of a make or of a providers call changes a table, whatever
\* the call returns and whether or not the base name is known: every pair
\* keeps the maker it had.
C15_ReadOnly == [][C15_Step]_vars

\* a make that ended in an exception next to a table that holds entries
C15_Witness ==
    \E t \in Threads :
        /\ Made(t) /\ th[t].result.kind = "exception"
        /\ m_maker_fns[th[t].fam] # <<>>
        /\ \E pr \in Pairs : StoredFn(pr) \notin {"absent", null_fn}

\* a make and a providers call on unknown base names have finished
C15_Unknown ==
    \E t \in Threads, u \in Threads :
        /\ Made(t) /\ th[t].seen = <<>> /\ th[t].result = NullPtr
        /\ th[u].op = "providers" /\ th[u].pc = "done" /\ th[u].v = <<>>

\* ---- C16 ---------------------------------------------------------------
\* thread t takes a step of the call it is in
Steps(t) == th[t].pc # "idle" /\ th'[t] # th[t]

InNested(t) == th[t].pc \in {"x_find_lock", "x_find_body", "x_invoke"}

C16_Step ==
    \A t \in Threads :
        Steps(t)
        => /\ \A g \in Families \ {th[t].fam, X_for(th[t].fam, th[t].maker)} :
                 m_maker_fns'[g] = m_maker_fns[g] /\ m_mutex'[g] = m_mutex[g]
           /\ ~InNested(t)
              => \A g \in Families \ {th[t].fam} :
                    m_maker_fns'[g] = m_maker_fns[g] /\ m_mutex'[g] = m_mutex[g]
           /\ InNested(t) /\ X_for(th[t].fam, th[t].maker) # th[t].fam
              => /\ m_mutex[th[t].fam] # t
                 /\ m_mutex'[th[t].fam] = m_mutex[th[t].fam]
                 /\ m_maker_fns' = m_maker_fns

C16_Held ==
    \A t \in Threads : \A f \in WaitsFor(t) :
        m_mutex[f] # NoThread => HeldAt(m_mutex[f]) = {f}

\* C16: a step of add, providers or make on family A changes neither the
\* table nor the mutex of another family B; only the nested make of a
\* dependent maker takes B's mutex, after A's was released, and it changes
\* no table; a thread at a lock statement for B's mutex finds it held only
\* by a thread inside a lookup or update of B's table.
C16_Independent == []C16_Held /\ [][C16_Step]_vars

\* two threads hold the mutexes of the two families at the same time
C16_Witness ==
    \E t \in Threads, u \in Threads :
        /\ th[t].fam = "Outer" /\ th[t].pc \in {"add_body", "find_body", "prov_body"}
        /\ m_mutex["Outer"] = t
        /\ th[u].fam = "Inner" /\ th[u].pc \in {"add_body", "find_body", "prov_body"}
        /\ m_mutex["Inner"] = u

\* ---- C17 ---------------------------------------------------------------
C17_Stored ==
    \A pr \in Pairs :
        addlog[pr] # <<>>
        => /\ pr[3] \in Range(providers(m_maker_fns[pr[1]], pr[2]))
           /\ StoredFn(pr) = FirstNonEmpty(addlog[pr])

C17_Step ==
    \A t \in Threads :
        th[t].pc = "add_body" /\ th'[t].pc = "done"
        => StoredFn(PairOf(t))' =
              IF StoredFn(PairOf(t)) \in {"absent", null_fn}
              THEN th[t].fn
              ELSE StoredFn(PairOf(t))

\* C17: add treats an empty stored maker as no maker: after any adds for a
\* pair the provider is listed by providers and the stored maker is the
\* first non-empty maker passed; an add on a pair whose entry is missing or
\* holds an empty maker stores its maker, any other add stores nothing.
C17_EmptyIsAbsent == []C17_Stored /\ [][C17_Step]_vars

\* a pair registered first with an empty maker and then with an adapter,
\* which is now stored
C17_Witness ==
    \E pr \in Pairs :
        /\ Len(addlog[pr]) >= 2
        /\ addlog[pr][1] = null_fn /\ addlog[pr][2] # null_fn
        /\ StoredFn(pr) = addlog[pr][2]

\* ---- C18 ---------------------------------------------------------------
\* thread t is in a dependent maker whose nested lookup has returned
NestedLooked(t) ==
    /\ th[t].op = "make" /\ th[t].pc \in {"x_invoke", "done"}
    /\ IsDependent(th[t].maker) /\ arg_count(th[t].spec) > 0

\* C18: the nested lookup of a dependent maker selects what a lookup
\* without provider hint selects from the entries of X's base name at that
\* lookup (the null default when there are none, else the begin() entry),
\* whatever provider the outer make was given.
C18_NestedNoHint ==
    \A t \in Threads :
        NestedLooked(t)
        => th[t].xmaker = IF th[t].xseen = <<>> THEN default_null
                          ELSE th[t].xseen[1].fn

\* a dependent make for provider "vendor" that got its X from "builtin",
\* the only provider of the X base name
C18_Witness ==
    \E t \in Threads :
        /\ Dependent(t) /\ th[t].provider = "vendor"
        /\ Keys(th[t].xseen) = {"builtin"}
        /\ th[t].x.kind = "instance" /\ th[t].result.inner = th[t].x.id

\* ---- C19 ---------------------------------------------------------------
\* the text make puts in front of the cause for spec
Creating(spec) == <<"Creating '">> \o as_string(spec) \o <<"' failed: ">>

C19_Failed ==
    \A t \in Threads :
        Dependent(t) /\ th[t].xseen # <<>> /\ th[t].x.kind = "exception"
        => /\ th[t].result.kind = "exception"
           /\ th[t].result.what = Creating(th[t].spec) \o th[t].x.what
           /\ \E cause \in {bad_function_call, arg_out_of_range} :
                 th[t].x.what = Creating(Spec_of_string(arg0(th[t].spec))) \o cause
           /\ th[t].result.id = 0 /\ th[t].result.inner = 0 /\ th[t].x.id = 0

C19_Step ==
    \A t \in Threads :
        th[t].pc = "x_invoke" /\ th'[t].pc = "done" /\ th'[t].x.kind = "exception"
        => next_id' = next_id /\ th'[t].result.kind = "exception"

\* C19: when X's base name has entries and X's maker throws inside a
\* dependent make, the outer make throws: its text is the outer spec's
\* canonical form followed by the text of the nested make's exception,
\* which holds X's canonical form and X's cause; no object is created.
C19_NestedFailure == []C19_Failed /\ [][C19_Step]_vars

\* a dependent make whose registered X maker threw
C19_Witness ==
    \E t \in Threads :
        /\ Dependent(t) /\ th[t].xseen # <<>> /\ th[t].x.kind = "exception"
        /\ th[t].xmaker \in Adapters(X_for(th[t].fam, th[t].maker))

====
